---- MODULE Spec2Model ----
(***************************************************************************)
(* make_lastz_chains: the control flow of one invocation of make_chains.py *)
(* (argument parsing, parameter dump, executable resolution, the ordered   *)
(* steps) and of the chain_run step (sort, bundle, joblist, distributed    *)
(* execution, cleanup).                                                    *)
(*                                                                         *)
(* Modules of the repository that the sources import but that are not part *)
(* of the source tree at hand (modules.step_manager, modules.parameters,   *)
(* parallelization.nextflow_wrapper,                                       *)
(* steps_implementations.chain_run_bundle_substep) are modelled from the   *)
(* design document; each such definition says so.                          *)
(***************************************************************************)
EXTENDS Integers, Sequences, FiniteSets, TLC

VARIABLES
    \* ---- one invocation of make_chains.py (main / run_pipeline)
    pc,                \* position in main(): "main", "run_pipeline", "resolve",
                       \* "genomes", "steps", "done", "aborted"; "psl_bundle"
                       \* when only the bundling function is exercised
    args,              \* the parsed command line
    parameters,        \* <<>> or <<record>>: the PipelineParameters object
    json_dump,         \* <<>> or <<json>>: the parameter dump in the project dir
    orig_dump,         \* history: the dump written by the last invocation that
                       \* was not a resume (continue_from_step = None)
    fs,                \* the tool files that exist: a set of <<location, name>>
    step_executables,  \* the outcome of StepExecutables()
    cur,               \* step manager: index in ORDER of the current step
    started,           \* history: the steps started by this run, in order
    completed,         \* history: the steps that returned, in order
    failed,            \* the step that raised, or None
    \* ---- the chain_run step (do_chain_run)
    crpc,              \* position in do_chain_run
    sort_rc,           \* <<>> or <<exit code of the sort subprocess>>
    sort_temp,         \* whether the sort working directory exists
    sorted_psl,        \* the content of the sorted psl directory
    max_bases,         \* the bound handed to the bundling function
    bundles,           \* the content of the split psl directory
    joblist,           \* <<>> or <<the commands written to the joblist file>>
    submitted,         \* whether the joblist was handed to the runner adapter
    units,             \* the status of each submitted unit of work
    cleaned_up,        \* whether NextflowWrapper.cleanup() was performed
    \* ---- the clean_chains step (do_chains_clean) and the parameter store
    cc,                \* the state of do_chains_clean: a record, see InitClean
    loaded,            \* <<>> or <<record>>: the parameters read back from a dump
    genome_meta        \* <<>> or <<record>>: the prepared sequences now on disk

runVars == <<pc, args, parameters, json_dump, orig_dump, fs, step_executables,
             cur, started, completed, failed>>
crVars == <<crpc, sort_rc, sort_temp, sorted_psl, max_bases, bundles, joblist,
            submitted, units, cleaned_up>>
auxVars == <<cc, loaded, genome_meta>>
vars == <<runVars, crVars, auxVars>>

None == "None"

----------------------------------------------------------------------------
\* Bounds of the model.

\* --lastz_k takes the values 1..MaxLastzK.
MaxLastzK == 1
\* At most MaxMissing of the required tools are absent from the file system.
MaxMissing == 2
\* At most MaxFallback tools are found in their fallback directory only.
MaxFallback == 1
\* The cat step left at most MaxChunks alignment records for chain_run.
MaxChunks == 3
\* The bundling function alone: streams of at most MaxLen records, over
\* MaxAcc reference accessions, of size 1..MaxRecSize each, bundled under a
\* bound of 1..MaxBases.
MaxLen == 3
MaxAcc == 2
MaxRecSize == 3
MaxBases == 4
\* The parameter store: the largest derived sequence length.
MaxSeqLen == 2

----------------------------------------------------------------------------
\* Helpers on sequences.

Range(s) == {s[i] : i \in 1..Len(s)}

IndexOf(s, x) == CHOOSE i \in 1..Len(s) : s[i] = x

IsPrefix(s, t) == Len(s) <= Len(t) /\ \A i \in 1..Len(s) : s[i] = t[i]

SeqsUpTo(S, n) == UNION {[1..k -> S] : k \in 0..n}

RECURSIVE Concat(_)
Concat(ss) == IF ss = <<>> THEN <<>> ELSE Head(ss) \o Concat(Tail(ss))

\* A psl record is <<reference accession, number of bases>>.
RECURSIVE SumSizes(_)
SumSizes(s) == IF s = <<>> THEN 0 ELSE Head(s)[2] + SumSizes(Tail(s))

----------------------------------------------------------------------------
\* The steps and their order.

\* ORDER with chain_merge listed before chain_run.
ORDER_merge_before_run ==
    <<"partition", "lastz", "cat", "chain_merge", "chain_run",
      "fill_chains", "clean_chains">>

\* PipelineSteps.ORDER
ORDER == <<"partition", "lastz", "cat", "chain_run", "chain_merge",
           "fill_chains", "clean_chains">>

\* parse_args: --continue_from_step is one of ORDER or absent (None); the
\* pipeline parameters are represented by --lastz_k and --fill_chain, both
\* of type int (--fill_chain: 0, or 1, its default).
ParsedArgs == [continue_from_step : {None} \cup Range(ORDER),
               lastz_k : 1..MaxLastzK,
               fill_chain : {0, 1}]

----------------------------------------------------------------------------
\* The parameter record (modules.parameters, modelled from the design
\* document: build from the command line, persist as JSON, load).

\* A Python value is <<"int", n>>, <<"str", s>> or <<"bool", b>>; a JSON
\* value is <<"number", n>>, <<"string", s>>, <<"true">> or <<"false">>.
json_encode(v) ==
    CASE v[1] = "int" -> <<"number", v[2]>>
      [] v[1] = "str" -> <<"string", v[2]>>
      [] v[1] = "bool" -> IF v[2] THEN <<"true">> ELSE <<"false">>

json_decode(j) ==
    CASE j[1] = "number" -> <<"int", j[2]>>
      [] j[1] = "string" -> <<"str", j[2]>>
      [] j[1] = "true" -> <<"bool", TRUE>>
      [] j[1] = "false" -> <<"bool", FALSE>>

\* PipelineParameters(args): the options as parse_args typed them.
PipelineParameters(a) ==
    [lastz_k |-> <<"int", a.lastz_k>>, fill_chain |-> <<"int", a.fill_chain>>]

\* PipelineParameters.dump_to_json: a JSON object, a set of <<key, value>>.
dump_to_json(p) == {<<k, json_encode(p[k])>> : k \in DOMAIN p}

\* The derived fields of a parameter record, as the prepared sequences give
\* them: the two sequence directories and the two sequence lengths.
SeqDirs == {"target_chunks", "query_chunks"}

SequenceMetas ==
    [seq_1_dir : SeqDirs, seq_1_len : 1..MaxSeqLen,
     seq_2_dir : SeqDirs, seq_2_len : 1..MaxSeqLen]

\* A parameter record with its derived fields set from the prepared
\* sequences.
with_derived(p, meta) ==
    [k \in DOMAIN p \cup {"seq_1_dir", "seq_1_len", "seq_2_dir", "seq_2_len"} |->
        CASE k \in {"seq_1_dir", "seq_2_dir"} -> <<"str", meta[k]>>
          [] k \in {"seq_1_len", "seq_2_len"} -> <<"int", meta[k]>>
          [] OTHER -> p[k]]

\* The parameter records: the options of some command line, and the
\* derived fields of some prepared sequences.
ParameterRecords ==
    {with_derived(PipelineParameters(a), m) : a \in ParsedArgs, m \in SequenceMetas}

\* Loading that sets the derived fields again from the sequences now on
\* disk.
load_from_json_recomputed(j) ==
    with_derived([k \in {kv[1] : kv \in j} |->
                     json_decode((CHOOSE kv \in j : kv[1] = k)[2])],
                 genome_meta[1])

\* The record read back from a JSON object: the fields are the keys of the
\* object, with the values the object gives them.
load_from_json(j) ==
    [k \in {kv[1] : kv \in j} |-> json_decode((CHOOSE kv \in j : kv[1] = k)[2])]

----------------------------------------------------------------------------
\* StepExecutables as run_pipeline constructs it (the class of
\* make_chains.py): four scripts looked up in standalone_scripts, two
\* binaries looked up on the search path.

LocalTools == <<
    [kind |-> "script", name |-> "partitionSequence.pl"],
    [kind |-> "script", name |-> "run_lastz.py"],
    [kind |-> "script", name |-> "split_chain_into_random_parts.pl"],
    [kind |-> "script", name |-> "bundle_chrom_split_psl_files.perl"],
    [kind |-> "binary", name |-> "faToTwoBit"],
    [kind |-> "binary", name |-> "twoBitToFa"] >>

\* Where a tool of the class above is looked up.
ToolFile(t) == IF t.kind = "script" THEN <<"standalone_scripts", t.name>>
               ELSE <<"PATH", t.name>>

AllToolFiles == {ToolFile(t) : t \in Range(LocalTools)}

\* __find_script with the check of os.path.isfile left out.
find_script_unchecked(script_name, files) == << <<"standalone_scripts", script_name>> >>

\* StepExecutables.__find_script: <<path>>, or <<>> when it raises ValueError.
find_script(script_name, files) ==
    IF <<"standalone_scripts", script_name>> \notin files
    THEN <<>>
    ELSE << <<"standalone_scripts", script_name>> >>

\* StepExecutables.__find_binary: <<path>>, or <<>> when it raises ValueError.
find_binary(binary_name, files) ==
    IF <<"PATH", binary_name>> \notin files
    THEN <<>>
    ELSE << <<"PATH", binary_name>> >>

\* StepExecutables.__init__ from its i-th assignment on: the first tool that
\* is not found raises, and the later ones are not looked up.
RECURSIVE StepExecutables_from(_, _, _)
StepExecutables_from(i, files, found) ==
    IF i > Len(LocalTools)
    THEN [state |-> "resolved", attempted |-> Len(LocalTools), error |-> {},
          paths |-> found]
    ELSE LET t == LocalTools[i]
             r == IF t.kind = "script" THEN find_script(t.name, files)
                  ELSE find_binary(t.name, files)
         IN  IF r = <<>>
             THEN [state |-> "raised", attempted |-> i, error |-> {t.name},
                   paths |-> found]
             ELSE StepExecutables_from(i + 1, files, found \o r)

StepExecutables_init(files) == StepExecutables_from(1, files, <<>>)

NoExecutables == [state |-> "unset", attempted |-> 0, error |-> {}, paths |-> <<>>]

----------------------------------------------------------------------------
\* The step manager (modules.step_manager, modelled from the design
\* document): the first step is the resume point when one is given, else
\* the first step of ORDER; the steps run one after the other. The
\* chain_run step is do_chain_run and the clean_chains step is
\* do_chains_clean; the methods of PipelineSteps for lastz, cat, chain_merge
\* and fill_chains only log.

StepManager_first(continue_from_step) ==
    IF continue_from_step = None THEN 1 ELSE IndexOf(ORDER, continue_from_step)

\* PipelineSteps.partition_step: the target genome, then the query genome;
\* t and q are the outcomes of the two calls of do_partition_for_genome.
partition_step(t, q) == IF t = "raise" THEN "raise" ELSE q

\* PipelineSteps.lastz_step, cat_step, chain_merge_step, fill_chains_step:
\* a log line and pass.
StubSteps == {"lastz", "cat", "chain_merge", "fill_chains"}

\* do_chains_clean as a whole: whether the selected input exists, the exit
\* code of the chain cleaner, the platform, the exit code of gzip.
do_chains_clean(input_exists, returncode, is_macos, gzip_rc) ==
    IF ~input_exists THEN "raise"
    ELSE IF returncode # 0 /\ ~is_macos THEN "raise"
    ELSE IF gzip_rc # 0 THEN "raise"
    ELSE "return"

----------------------------------------------------------------------------
\* The chain_run step.

\* Constants.BUNDLE_PSL_MAX_BASES, in units of 10,000,000 bases.
BUNDLE_PSL_MAX_BASES == 5

\* The sizes of the records the cat step may have left, in the same unit:
\* a full bundle's worth, and two smaller ones.
ChunkSizes == {2, 4, 5}

\* The streams the sort tool may write for chain_run: the i-th record is of
\* the i-th reference accession.
ChunkStreams ==
    UNION {{[i \in 1..n |-> <<i, sz[i]>>] : sz \in [1..n -> ChunkSizes]} :
           n \in 0..MaxChunks}

\* The records and the sorted streams the bundling function is applied to.
PslRecords == (1..MaxAcc) \X (1..MaxRecSize)

SortedStreams ==
    {s \in SeqsUpTo(PslRecords, MaxLen) :
        \A i \in 1..(Len(s) - 1) : s[i][1] <= s[i + 1][1]}

\* psl_bundle, subprocess.call(sort_cmd): the exit code is returned to a
\* caller that drops it; nothing is raised for it.
subprocess_call(rc) == "return"

\* sort_psl_file, subprocess.run(..., check=True): a non-zero exit raises.
subprocess_run_check(rc) == IF rc # 0 THEN "raise" ELSE "return"

\* The bundling function (chain_run_bundle_substep, modelled from the design
\* document): one pass over the sorted stream; the open bundle closes when
\* the next record would take it over the bound, and that record opens the
\* next bundle.
bundle_add(b, r, maxb) ==
    IF b.open # <<>> /\ SumSizes(b.open) + r[2] > maxb
    THEN [closed |-> Append(b.closed, b.open), open |-> <<r>>]
    ELSE [closed |-> b.closed, open |-> Append(b.open, r)]

RECURSIVE bundle_walk(_, _, _)
bundle_walk(s, b, maxb) ==
    IF s = <<>>
    THEN IF b.open = <<>> THEN b.closed ELSE Append(b.closed, b.open)
    ELSE bundle_walk(Tail(s), bundle_add(b, Head(s), maxb), maxb)

bundle_chrom_split_psl_files(s, maxb) ==
    bundle_walk(s, [closed |-> <<>>, open |-> <<>>], maxb)

\* psl_bundle handing the bundling function the sort working directory,
\* which it has just removed, in place of the sorted directory.
psl_bundle_split_temp_dir(sorted, maxb) ==
    bundle_chrom_split_psl_files(<<>>, maxb)

\* psl_bundle with the two numeric arguments exchanged: the total length of
\* the sequence in the place of the bound.
psl_bundle_split_swapped(sorted, maxb) ==
    bundle_chrom_split_psl_files(sorted, SumSizes(sorted))

\* psl_bundle handing the bundling function twice the configured bound.
psl_bundle_split_doubled(sorted, maxb) ==
    bundle_chrom_split_psl_files(sorted, 2 * maxb)

\* psl_bundle handing the bundling function a bound one short of the
\* configured one.
psl_bundle_split_short(sorted, maxb) ==
    bundle_chrom_split_psl_files(sorted, maxb - 1)

\* psl_bundle, 1.2: the sorted directory and the bound are handed to the
\* bundling function.
psl_bundle_split(sorted, maxb) == bundle_chrom_split_psl_files(sorted, maxb)

\* make_chains_joblist naming every output file after the first bundle.
make_chains_joblist_one_output(bundle_files) ==
    [i \in 1..Len(bundle_files) |->
        [in_path |-> <<"split_psl", i>>, out_path |-> <<"chain_output", 1, "chain">>]]

\* make_chains_joblist: one command per file of the split directory, reading
\* that bundle and writing <bundle>.chain.
make_chains_joblist(bundle_files) ==
    [i \in 1..Len(bundle_files) |->
        [in_path |-> <<"split_psl", i>>, out_path |-> <<"chain_output", i, "chain">>]]

\* do_chain_run called with wait=False.
ExecuteNoWait == FALSE

\* do_chain_run: nextflow_manager.execute(..., wait=True)
ExecuteWait == TRUE

\* The runner adapter (parallelization.nextflow_wrapper, modelled from the
\* design document): with wait, execute blocks until every unit has
\* finished and surfaces a failed unit as a hard failure.
NextflowWrapper_execute_may_return(u, wait) ==
    wait => \A i \in 1..Len(u) : u[i] # "running"

NextflowWrapper_execute_outcome(u, wait) ==
    IF wait /\ \E i \in 1..Len(u) : u[i] = "failed" THEN "raise" ELSE "return"

\* do_chain_run with the call of execute wrapped in a handler that drops the
\* exception.
do_chain_run_swallow(outcome) == "cleanup"

\* do_chain_run after execute: an exception leaves do_chain_run (there is no
\* handler), a return is followed by cleanup().
do_chain_run_after_execute(outcome) ==
    IF outcome = "raise" THEN "raise" ELSE "cleanup"

----------------------------------------------------------------------------
\* The initial states.

\* The project directory as an earlier invocation may have left it: no
\* parameter dump, or the dump of some parameter record.
EarlierDumps == {<<>>} \cup {<<dump_to_json(PipelineParameters(a))>> : a \in ParsedArgs}

\* The tool files: all of them but at most MaxMissing.
ToolFileSystems ==
    {AllToolFiles \ m : m \in {x \in SUBSET AllToolFiles : Cardinality(x) <= MaxMissing}}

InitRun ==
    /\ args = [continue_from_step |-> None, lastz_k |-> 1, fill_chain |-> 1]
    /\ parameters = <<>>
    /\ step_executables = NoExecutables
    /\ cur = 0
    /\ started = <<>>
    /\ completed = <<>>
    /\ failed = None

\* do_chains_clean has not been entered and no dump has been read back.
NoClean == [pc |-> "idle"]

InitAux ==
    /\ cc = NoClean
    /\ loaded = <<>>
    /\ genome_meta = <<>>

InitChainRun ==
    /\ sort_rc = <<>>
    /\ sort_temp = FALSE
    /\ bundles = <<>>
    /\ joblist = <<>>
    /\ submitted = FALSE
    /\ units = <<>>
    /\ cleaned_up = FALSE

\* make_chains.py is about to be invoked.
Init ==
    /\ InitAux
    /\ pc = "main"
    /\ InitRun
    /\ json_dump \in EarlierDumps
    /\ orig_dump = json_dump
    /\ fs \in ToolFileSystems
    /\ InitChainRun
    /\ crpc = "idle"
    /\ sorted_psl = <<>>
    /\ max_bases = BUNDLE_PSL_MAX_BASES

----------------------------------------------------------------------------
\* main and run_pipeline up to the steps.

\* main: args = parse_args()
ParseArgs ==
    /\ pc = "main"
    /\ args' \in ParsedArgs
    /\ pc' = "run_pipeline"
    /\ UNCHANGED <<parameters, json_dump, orig_dump, fs, step_executables, cur,
                   started, completed, failed>>
    /\ UNCHANGED crVars
    /\ UNCHANGED auxVars

\* run_pipeline: the step manager and the parameters are built from args and
\* the parameters are dumped to the project directory, whatever
\* continue_from_step is.
RunPipelineSetup ==
    /\ pc = "run_pipeline"
    /\ cur' = StepManager_first(args.continue_from_step)
    /\ parameters' = <<PipelineParameters(args)>>
    /\ json_dump' = <<dump_to_json(PipelineParameters(args))>>
    /\ orig_dump' = IF args.continue_from_step = None THEN json_dump' ELSE orig_dump
    /\ pc' = "resolve"
    /\ UNCHANGED <<args, fs, step_executables, started, completed, failed>>
    /\ UNCHANGED crVars
    /\ UNCHANGED auxVars

\* run_pipeline: step_executables = StepExecutables(); a ValueError ends the
\* run.
ResolveExecutables ==
    /\ pc = "resolve"
    /\ step_executables' = StepExecutables_init(fs)
    /\ pc' = IF step_executables'.state = "raised" THEN "aborted" ELSE "genomes"
    /\ UNCHANGED <<args, parameters, json_dump, orig_dump, fs, cur, started,
                   completed, failed>>
    /\ UNCHANGED crVars
    /\ UNCHANGED auxVars

\* run_pipeline: setup_genome_sequences for the target and for the query;
\* either may raise.
SetupGenomes ==
    /\ pc = "genomes"
    /\ \E t, q \in {"return", "raise"} :
          pc' = IF t = "raise" \/ q = "raise" THEN "aborted" ELSE "steps"
    /\ UNCHANGED <<args, parameters, json_dump, orig_dump, fs, step_executables,
                   cur, started, completed, failed>>
    /\ UNCHANGED crVars
    /\ UNCHANGED auxVars

----------------------------------------------------------------------------
\* step_manager.execute_steps(project_dir, parameters, step_executables).

\* The step manager is at the named step.
AtStep(step) == pc = "steps" /\ cur \in 1..Len(ORDER) /\ ORDER[cur] = step

\* The current step returned: the next one is due, or the run is over.
StepReturns(step) ==
    /\ completed' = Append(completed, step)
    /\ cur' = cur + 1
    /\ pc' = IF cur + 1 > Len(ORDER) THEN "done" ELSE "steps"
    /\ failed' = failed

\* The current step raised: nothing handles the exception, in execute_steps
\* or in run_pipeline.
StepRaises(step) ==
    /\ failed' = step
    /\ pc' = "aborted"
    /\ UNCHANGED <<cur, completed>>

PartitionStep ==
    /\ AtStep("partition")
    /\ started' = Append(started, "partition")
    /\ \E t, q \in {"return", "raise"} :
          IF partition_step(t, q) = "raise"
          THEN StepRaises("partition") ELSE StepReturns("partition")
    /\ UNCHANGED <<args, parameters, json_dump, orig_dump, fs, step_executables>>
    /\ UNCHANGED crVars
    /\ UNCHANGED auxVars

StubStep ==
    /\ \E step \in StubSteps :
          /\ AtStep(step)
          /\ started' = Append(started, step)
          /\ StepReturns(step)
    /\ UNCHANGED <<args, parameters, json_dump, orig_dump, fs, step_executables>>
    /\ UNCHANGED crVars
    /\ UNCHANGED auxVars

CleanChainsStep ==
    /\ AtStep("clean_chains")
    /\ started' = Append(started, "clean_chains")
    /\ \E input_exists, is_macos \in BOOLEAN, returncode, gzip_rc \in {0, 1} :
          IF do_chains_clean(input_exists, returncode, is_macos, gzip_rc) = "raise"
          THEN StepRaises("clean_chains") ELSE StepReturns("clean_chains")
    /\ UNCHANGED <<args, parameters, json_dump, orig_dump, fs, step_executables>>
    /\ UNCHANGED crVars
    /\ UNCHANGED auxVars

----------------------------------------------------------------------------
\* do_chain_run.

runFrame == <<args, parameters, json_dump, orig_dump, fs, step_executables>>

\* psl_bundle, 1.1: the directories are made, the sort tool is called and the
\* sort working directory is removed. When the tool cannot be launched the
\* call raises and the removal is not reached; otherwise its exit code is
\* dropped. What a failed sort leaves in the sorted directory is not known.
ChainRunSort ==
    /\ AtStep("chain_run")
    /\ crpc = "idle"
    /\ started' = Append(started, "chain_run")
    /\ \E launched \in BOOLEAN, rc \in {0, 1}, out \in ChunkStreams :
          IF ~launched
          THEN /\ sort_temp' = TRUE
               /\ crpc' = "raised"
               /\ StepRaises("chain_run")
               /\ UNCHANGED <<sort_rc, sorted_psl>>
          ELSE /\ sort_rc' = <<rc>>
               /\ sorted_psl' = out
               /\ sort_temp' = FALSE
               /\ IF subprocess_call(rc) = "raise"
                  THEN crpc' = "raised" /\ StepRaises("chain_run")
                  ELSE crpc' = "sorted" /\ UNCHANGED <<cur, completed, failed, pc>>
    /\ UNCHANGED runFrame
    /\ UNCHANGED auxVars
    /\ UNCHANGED <<max_bases, bundles, joblist, submitted, units, cleaned_up>>

\* psl_bundle, 1.2: the sorted stream is bundled into the split directory;
\* the bundling function may raise.
ChainRunBundle ==
    /\ AtStep("chain_run")
    /\ crpc = "sorted"
    /\ \E outcome \in {"return", "raise"} :
          IF outcome = "raise"
          THEN /\ crpc' = "raised"
               /\ StepRaises("chain_run")
               /\ UNCHANGED bundles
          ELSE /\ bundles' = psl_bundle_split(sorted_psl, max_bases)
               /\ crpc' = "bundled"
               /\ UNCHANGED <<cur, completed, failed, pc>>
    /\ UNCHANGED runFrame
    /\ UNCHANGED auxVars
    /\ UNCHANGED <<started, sort_rc, sort_temp, sorted_psl, max_bases, joblist,
                   submitted, units, cleaned_up>>

\* do_chain_run, parts 2 and 3 up to the joblist file: the commands are made
\* and written.
ChainRunJoblist ==
    /\ AtStep("chain_run")
    /\ crpc = "bundled"
    /\ joblist' = <<make_chains_joblist(bundles)>>
    /\ crpc' = "joblist"
    /\ UNCHANGED runFrame
    /\ UNCHANGED auxVars
    /\ UNCHANGED <<cur, started, completed, failed, pc>>
    /\ UNCHANGED <<sort_rc, sort_temp, sorted_psl, max_bases, bundles, submitted,
                   units, cleaned_up>>

\* nextflow_manager.execute is called with the joblist: every command
\* becomes a unit of work, or the submission itself fails.
ChainRunExecute ==
    /\ AtStep("chain_run")
    /\ crpc = "joblist"
    /\ submitted' = TRUE
    /\ \E accepted \in BOOLEAN :
          IF accepted
          THEN /\ units' = [i \in 1..Len(joblist[1]) |-> "running"]
               /\ crpc' = "submitted"
               /\ UNCHANGED <<cur, completed, failed, pc>>
          ELSE /\ IF do_chain_run_after_execute("raise") = "raise"
                  THEN crpc' = "raised" /\ StepRaises("chain_run")
                  ELSE crpc' = "returned" /\ UNCHANGED <<cur, completed, failed, pc>>
               /\ UNCHANGED units
    /\ UNCHANGED runFrame
    /\ UNCHANGED auxVars
    /\ UNCHANGED <<started, sort_rc, sort_temp, sorted_psl, max_bases, bundles,
                   joblist, cleaned_up>>

\* The external scheduler finishes one unit, with success or with failure.
UnitFinishes ==
    /\ \E i \in 1..Len(units) :
          /\ units[i] = "running"
          /\ \E result \in {"ok", "failed"} :
                units' = [units EXCEPT ![i] = result]
    /\ UNCHANGED runVars
    /\ UNCHANGED auxVars
    /\ UNCHANGED <<crpc, sort_rc, sort_temp, sorted_psl, max_bases, bundles,
                   joblist, submitted, cleaned_up>>

\* execute ends: it returns, or it raises and do_chain_run is left.
ChainRunExecuteEnds ==
    /\ AtStep("chain_run")
    /\ crpc = "submitted"
    /\ NextflowWrapper_execute_may_return(units, ExecuteWait)
    /\ IF do_chain_run_after_execute(
             NextflowWrapper_execute_outcome(units, ExecuteWait)) = "raise"
       THEN crpc' = "raised" /\ StepRaises("chain_run")
       ELSE crpc' = "returned" /\ UNCHANGED <<cur, completed, failed, pc>>
    /\ UNCHANGED runFrame
    /\ UNCHANGED auxVars
    /\ UNCHANGED <<started, sort_rc, sort_temp, sorted_psl, max_bases, bundles,
                   joblist, submitted, units, cleaned_up>>

\* nextflow_manager.cleanup(), the last statement of do_chain_run.
ChainRunCleanup ==
    /\ AtStep("chain_run")
    /\ crpc = "returned"
    /\ cleaned_up' = TRUE
    /\ crpc' = "done"
    /\ StepReturns("chain_run")
    /\ UNCHANGED runFrame
    /\ UNCHANGED auxVars
    /\ UNCHANGED <<started, sort_rc, sort_temp, sorted_psl, max_bases, bundles,
                   joblist, submitted, units>>

----------------------------------------------------------------------------
Next ==
    \/ ParseArgs
    \/ RunPipelineSetup
    \/ ResolveExecutables
    \/ SetupGenomes
    \/ PartitionStep
    \/ StubStep
    \/ CleanChainsStep
    \/ ChainRunSort
    \/ ChainRunBundle
    \/ ChainRunJoblist
    \/ ChainRunExecute
    \/ UnitFinishes
    \/ ChainRunExecuteEnds
    \/ ChainRunCleanup

Spec == Init /\ [][Next]_vars

----------------------------------------------------------------------------
\* The bundling function on its own: any sorted stream, any bound.

InitBundle ==
    /\ InitAux
    /\ pc = "psl_bundle"
    /\ InitRun
    /\ json_dump = <<>>
    /\ orig_dump = <<>>
    /\ fs = AllToolFiles
    /\ InitChainRun
    /\ crpc = "sorted"
    /\ sorted_psl \in SortedStreams
    /\ max_bases \in 1..MaxBases

BundleSorted ==
    /\ pc = "psl_bundle"
    /\ crpc = "sorted"
    /\ bundles' = psl_bundle_split(sorted_psl, max_bases)
    /\ crpc' = "bundled"
    /\ UNCHANGED runVars
    /\ UNCHANGED auxVars
    /\ UNCHANGED <<sort_rc, sort_temp, sorted_psl, max_bases, joblist, submitted,
                   units, cleaned_up>>

NextBundle == BundleSorted

SpecBundle == InitBundle /\ [][NextBundle]_vars

----------------------------------------------------------------------------
\* StepExecutables of modules/step_executables.py, the class the steps
\* import: every tool is looked up, a tool that is not found is appended to
\* not_found, and __check_completeness raises once at the end.

\* The attributes in the order of __init__; a tool is named by its constant.
ModuleTools == <<
    [kind |-> "script", field |-> "lastz_wrapper", name |-> "RUN_LASTZ"],
    [kind |-> "script", field |-> "repeat_filler", name |-> "REPEAT_FILLER"],
    [kind |-> "binary", field |-> "fa_to_two_bit", name |-> "FA_TO_TWO_BIT"],
    [kind |-> "binary", field |-> "two_bit_to_fa", name |-> "TWO_BIT_TO_FA"],
    [kind |-> "binary", field |-> "psl_sort_acc", name |-> "PSL_SORT_ACC"],
    [kind |-> "binary", field |-> "axt_chain", name |-> "AXT_CHAIN"],
    [kind |-> "binary", field |-> "chain_anti_repeat", name |-> "CHAIN_ANTI_REPEAT"],
    [kind |-> "binary", field |-> "chain_merge_sort", name |-> "CHAIN_MERGE_SORT"],
    [kind |-> "binary", field |-> "chain_cleaner", name |-> "CHAIN_CLEANER"],
    [kind |-> "binary", field |-> "chain_sort", name |-> "CHAIN_SORT"],
    [kind |-> "binary", field |-> "chain_score", name |-> "CHAIN_SCORE"],
    [kind |-> "binary", field |-> "lastz", name |-> "LASTZ"],
    [kind |-> "chain_net", field |-> "chain_net", name |-> "CHAIN_NET"] >>

\* The values an attribute may hold: a path, None, True.
PathValue(location, name) == <<"path", location, name>>
NoneValue == <<"None">>
TrueValue == <<"True">>

\* The directory a tool is looked up in first, and the one it is looked up
\* in next (a script has no second one).
FirstLocation(t) == IF t.kind = "script" THEN "standalone_scripts" ELSE "PATH"
FallbackLocation(t) == IF t.kind = "chain_net" THEN "chain_clean_env"
                       ELSE "HL_kent_binaries"

\* StepExecutables.__find_script
modules_find_script(script_name, files, not_found) ==
    IF <<"standalone_scripts", script_name>> \notin files
    THEN [value |-> NoneValue, not_found |-> Append(not_found, script_name)]
    ELSE [value |-> PathValue("standalone_scripts", script_name),
          not_found |-> not_found]

\* StepExecutables.__find_binary: the path on the search path, else the path
\* in the HL_kent_binaries directory, which is returned whether or not the
\* file exists.
modules_find_binary(binary_name, files, not_found) ==
    IF <<"PATH", binary_name>> \in files
    THEN [value |-> PathValue("PATH", binary_name), not_found |-> not_found]
    ELSE [value |-> PathValue("HL_kent_binaries", binary_name),
          not_found |-> IF <<"HL_kent_binaries", binary_name>> \notin files
                        THEN Append(not_found, binary_name)
                        ELSE not_found]

\* StepExecutables.__locate_chain_net
modules_locate_chain_net(chain_net, files, not_found) ==
    IF <<"PATH", chain_net>> \in files
    THEN [value |-> TrueValue, not_found |-> not_found]
    ELSE IF <<"chain_clean_env", chain_net>> \in files
    THEN [value |-> TrueValue, not_found |-> not_found]
    ELSE [value |-> NoneValue, not_found |-> Append(not_found, chain_net)]

\* StepExecutables.__check_completeness: the tools the error message lists.
modules_check_completeness(not_found) ==
    IF Len(not_found) = 0
    THEN [state |-> "resolved", error |-> {}]
    ELSE [state |-> "raised", error |-> Range(not_found)]

\* StepExecutables.__init__ from its i-th attribute on.
RECURSIVE modules_StepExecutables_from(_, _, _, _)
modules_StepExecutables_from(i, files, fields, not_found) ==
    IF i > Len(ModuleTools)
    THEN [state |-> modules_check_completeness(not_found).state,
          error |-> modules_check_completeness(not_found).error,
          not_found |-> not_found,
          fields |-> fields]
    ELSE LET t == ModuleTools[i]
             r == CASE t.kind = "script" ->
                         modules_find_script(t.name, files, not_found)
                    [] t.kind = "binary" ->
                         modules_find_binary(t.name, files, not_found)
                    [] t.kind = "chain_net" ->
                         modules_locate_chain_net(t.name, files, not_found)
         IN  modules_StepExecutables_from(
                 i + 1, files, Append(fields, <<t.field, r.value>>), r.not_found)

modules_StepExecutables_init(files) ==
    modules_StepExecutables_from(1, files, <<>>, <<>>)

\* The file systems the class is constructed on: at most MaxMissing tools
\* are in neither of their directories, at most MaxFallback tools are in
\* their second directory only, the others are in their first directory.
ModuleFileSystems ==
    LET tools == Range(ModuleTools)
    IN  {{<<FirstLocation(t), t.name>> : t \in tools \ (absent \cup second)}
            \cup {<<FallbackLocation(t), t.name>> : t \in second} :
         absent \in {x \in SUBSET tools : Cardinality(x) <= MaxMissing},
         second \in {x \in SUBSET {t \in tools : t.kind # "script"} :
                        Cardinality(x) <= MaxFallback}}

InitResolver ==
    /\ InitAux
    /\ pc = "StepExecutables"
    /\ InitRun
    /\ json_dump = <<>>
    /\ orig_dump = <<>>
    /\ fs \in ModuleFileSystems
    /\ InitChainRun
    /\ crpc = "idle"
    /\ sorted_psl = <<>>
    /\ max_bases = BUNDLE_PSL_MAX_BASES

\* StepExecutables(root_dir)
ConstructStepExecutables ==
    /\ pc = "StepExecutables"
    /\ step_executables' = modules_StepExecutables_init(fs)
    /\ pc' = IF step_executables'.state = "raised" THEN "aborted" ELSE "resolved"
    /\ UNCHANGED <<args, parameters, json_dump, orig_dump, fs, cur, started,
                   completed, failed>>
    /\ UNCHANGED crVars
    /\ UNCHANGED auxVars

NextResolver == ConstructStepExecutables

SpecResolver == InitResolver /\ [][NextResolver]_vars

----------------------------------------------------------------------------
\* do_chains_clean of steps_implementations/clean_chain_step.py, statement by
\* statement, on the files of the project directory.

\* ProjectPaths (modules.project_paths): a path is the sequence of the parts
\* of its file name.
filled_chain == <<"filled", "chain", "gz">>
merged_chain == <<"all", "chain", "gz">>
before_cleaning_chain == <<"before_cleaning", "chain", "gz">>
clean_removed_suspects == <<"removed_suspects", "bed">>
chain_cleaner_log == <<"chain_cleaner", "log">>
chain_clean_micro_env == "chain_clean_micro_env"

\* str.removesuffix(".gz")
removesuffix_gz(path) ==
    IF Len(path) > 0 /\ path[Len(path)] = "gz"
    THEN SubSeq(path, 1, Len(path) - 1)
    ELSE path

\* The paths the step may touch; a file system maps each to the content of
\* the file, <<>> where there is no file.
CleanPaths ==
    {filled_chain, merged_chain, before_cleaning_chain, clean_removed_suspects,
     chain_cleaner_log, removesuffix_gz(filled_chain), removesuffix_gz(merged_chain)}

isfile(files, path) == path \in DOMAIN files /\ files[path] # <<>>

\* The chain a file of the project directory holds before the step.
ChainData(path) == <<"chain", path[1]>>

\* The project directories the step is entered with: each of the two input
\* chains and the before-cleaning chain (an earlier attempt's) is there or
\* is not.
CleanFileSystems ==
    {[p \in CleanPaths |-> IF p \in there THEN ChainData(p) ELSE <<>>] :
        there \in SUBSET {filled_chain, merged_chain, before_cleaning_chain}}

\* What the chain cleaner may write to its stderr.
StderrTexts == {"", "Couldn't open /proc/self/stat"}

\* x is True
is_True(v) == v[1] = "bool" /\ v[2]

\* do_chains_clean, the selection of the input chain.
select_input_chain(params) ==
    IF is_True(params.fill_chain) THEN filled_chain ELSE merged_chain

\* do_chains_clean without the test of the input file.
input_chain_check_skipped(files, input_chain) == "go"

\* do_chains_clean, the test of the input file.
input_chain_check(files, input_chain) ==
    IF ~isfile(files, input_chain) THEN "raise" ELSE "go"

\* shutil.move(src, dst) of a file: dst is replaced.
shutil_move(files, src, dst) ==
    [files EXCEPT ![dst] = files[src], ![src] = <<>>]

\* The cleaner command writing its output over the before-cleaning chain.
chain_cleaner_cmd_in_place(input_chain) ==
    [in_chain |-> before_cleaning_chain,
     out_chain |-> before_cleaning_chain,
     suspects |-> clean_removed_suspects]

\* do_chains_clean, chain_cleaner_cmd: the chain read, the chain written,
\* the report of the removed suspects.
chain_cleaner_cmd(input_chain) ==
    [in_chain |-> before_cleaning_chain,
     out_chain |-> removesuffix_gz(input_chain),
     suspects |-> clean_removed_suspects]

\* do_chains_clean, _temp_env["PATH"]
temp_env_PATH(environ_PATH) == <<chain_clean_micro_env>> \o environ_PATH

\* The search paths the process may have been started with.
EnvironPaths == {<<"usr_bin">>, <<"usr_local_bin", "usr_bin">>}

\* _temp_env = os.environ, without the copy: the assignment to
\* _temp_env["PATH"] is then an assignment to os.environ["PATH"].
os_environ_PATH_aliased(environ_PATH) == temp_env_PATH(environ_PATH)

\* do_chains_clean, os.environ["PATH"] after _temp_env = os.environ.copy()
\* and the assignment to _temp_env["PATH"]: the copy is what is changed.
os_environ_PATH_after_copy(environ_PATH) == environ_PATH

\* The non-zero exit of the cleaner tolerated on every platform.
cleaner_exit_tolerated(returncode, system) ==
    IF returncode # 0 THEN "tolerate" ELSE "ok"

\* do_chains_clean, the handling of the cleaner's exit code.
cleaner_exit(returncode, system) ==
    IF returncode # 0
    THEN IF system = "Darwin" THEN "tolerate" ELSE "raise"
    ELSE "ok"

\* The errors raised; a message is the sequence of its parts, a literal
\* text <<text>> or the path or text formatted into it.
CannotFind(path) == [type |-> "RuntimeError", message |-> <<<<"Cannot find ">>, path>>]
CleanerDied(stderr) ==
    [type |-> "PipelineSubprocessError",
     message |-> <<<<"chain cleaner process died with the following error message: ">>,
                   <<stderr>>>>]
GzipFailed ==
    [type |-> "PipelineSubprocessError",
     message |-> <<<<"gzip command at clean chain step failed">>>>]

\* The chain cleaner (an external tool) run on cmd: with exit code 0 it has
\* written the cleaned chain and the report; with another exit code it may
\* or may not have written them. It cannot succeed without its input.
CleanerEffects(files, cmd) ==
    IF ~isfile(files, cmd.in_chain)
    THEN {[returncode |-> 1, stderr |-> e, files |-> files] : e \in StderrTexts}
    ELSE LET written == [files EXCEPT
                           ![cmd.out_chain] = <<"cleaned", files[cmd.in_chain][2]>>,
                           ![cmd.suspects] = <<"suspects">>]
         IN  {[returncode |-> x[1], stderr |-> x[2],
               files |-> IF x[3] THEN written ELSE files] :
              x \in {y \in {0, 1} \X StderrTexts \X BOOLEAN : y[1] = 0 => y[3]}}

\* gzip (an external tool) run on path: it fails when there is no such file
\* or the compressed file is already there, and may fail otherwise; when it
\* succeeds the compressed file has replaced the file.
GzipEffects(files, path) ==
    {[returncode |-> 1, files |-> files]} \cup
    IF isfile(files, path) /\ ~isfile(files, Append(path, "gz"))
    THEN {[returncode |-> 0,
           files |-> [files EXCEPT ![Append(path, "gz")] = <<"gz">> \o files[path],
                                   ![path] = <<>>]]}
    ELSE {}

\* The state of do_chains_clean when it is entered.
CleanStart(params, system, files, environ_PATH) ==
    [pc |-> "start",
     params |-> params,          \* PipelineParameters
     system |-> system,          \* platform.system()
     files |-> files,            \* the project directory
     environ_PATH |-> environ_PATH,   \* os.environ["PATH"]
     input_chain |-> <<>>,       \* <<>> or <<the path selected>>
     cmd |-> <<>>,               \* <<>> or <<chain_cleaner_cmd>>
     env_PATH |-> <<>>,          \* <<>> or <<the PATH handed to the cleaner>>
     returncode |-> <<>>,        \* <<>> or <<the cleaner's exit code>>
     stderr |-> <<>>,            \* <<>> or <<the cleaner's captured stderr>>
     gzip_invoked |-> FALSE,
     gzip_PATH |-> <<>>,         \* <<>> or <<the PATH gzip was run with>>
     log |-> <<>>,               \* the lines handed to to_log
     error |-> <<>>]             \* <<>> or <<the exception that left the step>>

InitClean ==
    /\ pc = "do_chains_clean"
    /\ InitRun
    /\ json_dump = <<>>
    /\ orig_dump = <<>>
    /\ fs = AllToolFiles
    /\ InitChainRun
    /\ crpc = "idle"
    /\ sorted_psl = <<>>
    /\ max_bases = BUNDLE_PSL_MAX_BASES
    /\ loaded = <<>>
    /\ genome_meta = <<>>
    /\ \E a \in ParsedArgs, system \in {"Linux", "Darwin"}, files \in CleanFileSystems,
          environ_PATH \in EnvironPaths :
          cc = CleanStart(PipelineParameters(a), system, files, environ_PATH)

cleanFrame == <<runVars, crVars, loaded, genome_meta>>

\* Lines 17-25: the input chain is selected and tested.
CleanSelectInput ==
    /\ cc.pc = "start"
    /\ LET input_chain == select_input_chain(cc.params)
           line == IF input_chain = filled_chain THEN "Chains were filled"
                   ELSE "Fill chains step was skipped"
       IN  IF input_chain_check(cc.files, input_chain) = "raise"
           THEN cc' = [cc EXCEPT !.pc = "raised",
                                 !.input_chain = <<input_chain>>,
                                 !.log = Append(@, line),
                                 !.error = <<CannotFind(input_chain)>>]
           ELSE cc' = [cc EXCEPT !.pc = "selected",
                                 !.input_chain = <<input_chain>>,
                                 !.log = Append(@, line)]
    /\ UNCHANGED cleanFrame

\* Lines 27-50: the input is moved to the before-cleaning path (shutil.move
\* raises when there is no such file), the environment of the cleaner and
\* its command are made.
CleanMoveInput ==
    /\ cc.pc = "selected"
    /\ IF ~isfile(cc.files, cc.input_chain[1])
       THEN cc' = [cc EXCEPT !.pc = "raised",
                             !.error = <<[type |-> "FileNotFoundError",
                                          message |-> <<cc.input_chain[1]>>]>>]
       ELSE cc' = [cc EXCEPT
                     !.pc = "moved",
                     !.files = shutil_move(@, cc.input_chain[1], before_cleaning_chain),
                     !.env_PATH = <<temp_env_PATH(cc.environ_PATH)>>,
                     !.environ_PATH = os_environ_PATH_after_copy(cc.environ_PATH),
                     !.cmd = <<chain_cleaner_cmd(cc.input_chain[1])>>,
                     !.log = @ \o <<"Chain to be cleaned saved to",
                                    "Executing the following chain cleaner command">>]
    /\ UNCHANGED cleanFrame

\* Lines 52-77: the log file is opened, the cleaner is run (or cannot be
\* launched), its stdout is written to the log file and its exit code is
\* handled.
CleanRunCleaner ==
    /\ cc.pc = "moved"
    /\ LET opened == [cc.files EXCEPT ![chain_cleaner_log] = <<"log">>]
       IN  \/ cc' = [cc EXCEPT !.pc = "raised",
                               !.files = opened,
                               !.error = <<[type |-> "OSError", message |-> <<>>]>>]
           \/ \E r \in CleanerEffects(opened, cc.cmd[1]) :
                 LET ran == [cc EXCEPT !.files = r.files,
                                       !.returncode = <<r.returncode>>,
                                       !.stderr = <<r.stderr>>]
                     handled == cleaner_exit(r.returncode, cc.system)
                 IN  cc' = CASE handled = "raise" ->
                                  [ran EXCEPT !.pc = "raised",
                                              !.error = <<CleanerDied(r.stderr)>>]
                             [] handled = "tolerate" ->
                                  [ran EXCEPT !.pc = "cleaned",
                                              !.log = Append(@, "Chain cleaner returned non-zero error code")]
                             [] handled = "ok" ->
                                  [ran EXCEPT !.pc = "cleaned"]
    /\ UNCHANGED cleanFrame

\* Lines 79-87: the cleaned chain is compressed; gzip is run with the
\* environment of the process.
CleanGzip ==
    /\ cc.pc = "cleaned"
    /\ \E r \in GzipEffects(cc.files, cc.cmd[1].out_chain) :
          LET ran == [cc EXCEPT !.files = r.files,
                                !.gzip_invoked = TRUE,
                                !.gzip_PATH = <<cc.environ_PATH>>,
                                !.log = Append(@, "Chain clean results saved to")]
          IN  IF subprocess_run_check(r.returncode) = "raise"
              THEN cc' = [ran EXCEPT !.pc = "raised", !.error = <<GzipFailed>>]
              ELSE cc' = [ran EXCEPT !.pc = "done",
                                     !.log = Append(@, "Chain clean DONE")]
    /\ UNCHANGED cleanFrame

NextClean ==
    \/ CleanSelectInput
    \/ CleanMoveInput
    \/ CleanRunCleaner
    \/ CleanGzip

SpecClean == InitClean /\ [][NextClean]_vars

----------------------------------------------------------------------------
\* The parameter store on its own: any parameter record is persisted and
\* read back, while the prepared sequences may be redone in between.

InitParams ==
    /\ pc = "parameters"
    /\ args = [continue_from_step |-> None, lastz_k |-> 1, fill_chain |-> 1]
    /\ \E p \in ParameterRecords :
          /\ parameters = <<p>>
          /\ genome_meta = <<[seq_1_dir |-> p.seq_1_dir[2], seq_1_len |-> p.seq_1_len[2],
                              seq_2_dir |-> p.seq_2_dir[2], seq_2_len |-> p.seq_2_len[2]]>>
    /\ step_executables = NoExecutables
    /\ cur = 0
    /\ started = <<>>
    /\ completed = <<>>
    /\ failed = None
    /\ json_dump = <<>>
    /\ orig_dump = <<>>
    /\ fs = AllToolFiles
    /\ InitChainRun
    /\ crpc = "idle"
    /\ sorted_psl = <<>>
    /\ max_bases = BUNDLE_PSL_MAX_BASES
    /\ cc = NoClean
    /\ loaded = <<>>

paramsFrame == <<pc, args, parameters, orig_dump, fs, step_executables, cur,
                 started, completed, failed, crVars, cc>>

\* run_pipeline: parameters.dump_to_json(project_dir)
PersistParameters ==
    /\ pc = "parameters"
    /\ json_dump = <<>>
    /\ json_dump' = <<dump_to_json(parameters[1])>>
    /\ UNCHANGED <<paramsFrame, loaded, genome_meta>>

\* The sequences of the project are prepared again, with other directories
\* or lengths.
SequencesRedone ==
    /\ pc = "parameters"
    /\ \E m \in SequenceMetas : genome_meta' = <<m>>
    /\ UNCHANGED <<paramsFrame, json_dump, loaded>>

\* A later invocation reads the persisted record back.
LoadParameters ==
    /\ pc = "parameters"
    /\ json_dump # <<>>
    /\ loaded' = <<load_from_json(json_dump[1])>>
    /\ UNCHANGED <<paramsFrame, json_dump, genome_meta>>

NextParams ==
    \/ PersistParameters
    \/ SequencesRedone
    \/ LoadParameters

SpecParams == InitParams /\ [][NextParams]_vars

----------------------------------------------------------------------------
\* Properties.

\* The order of the steps as the design document gives it.
FixedOrder == <<"partition", "lastz", "cat", "chain_run", "chain_merge",
                "fill_chains", "clean_chains">>

\* The steps from resume point x to the end, in the fixed order.
ResumeSuffix(x) ==
    IF x = None THEN FixedOrder
    ELSE SubSeq(FixedOrder, IndexOf(FixedOrder, x), Len(FixedOrder))

\* The required tools that cannot be resolved on this file system.
MissingRequired == {t.name : t \in {x \in Range(LocalTools) : ToolFile(x) \notin fs}}

\* C1: a run resumed from X starts no step before X: the steps it has started
\* are, at every moment, the first steps of the fixed order from X on (from
\* partition without a resume point), each once; while no step has failed
\* the run goes on, and when it ends without a failure it has started and
\* completed every step from X to clean_chains, in the fixed order.
C1_ResumeRunsStepsFromXInOrder ==
    /\ IsPrefix(started, ResumeSuffix(args.continue_from_step))
    /\ IsPrefix(completed, started)
    /\ pc = "steps" => ENABLED Next
    /\ pc = "done" =>
          /\ started = ResumeSuffix(args.continue_from_step)
          /\ completed = started

C1_Witness ==
    /\ pc = "done"
    /\ args.continue_from_step = "chain_run"
    /\ completed = <<"chain_run", "chain_merge", "fill_chains", "clean_chains">>

\* C2: while a required tool is unresolved no step has begun: the run is
\* before the steps or has been aborted, and nothing of chain_run happened.
C2_NoStepWithMissingTool ==
    MissingRequired # {} =>
        /\ started = <<>>
        /\ pc \in {"main", "run_pipeline", "resolve", "aborted"}
        /\ crpc = "idle"
        /\ units = <<>>

C2_Witness ==
    /\ MissingRequired # {}
    /\ step_executables.state = "raised"
    /\ pc = "aborted"
    /\ started = <<>>

\* C3: when the resolver fails it has attempted every required tool and its
\* error names every missing tool.
C3_ResolverNamesEveryMissingTool ==
    step_executables.state = "raised" =>
        /\ step_executables.attempted = Len(LocalTools)
        /\ step_executables.error = MissingRequired

\* C4: in a resumed invocation, once run_pipeline has set up the parameters,
\* the dump in the project directory is the one the original invocation
\* wrote, and the parameters handed to the steps are that record.
C4_ResumeKeepsPersistedRecord ==
    (/\ args.continue_from_step # None
     /\ orig_dump # <<>>
     /\ pc \notin {"main", "run_pipeline"}) =>
        /\ json_dump = orig_dump
        /\ parameters = <<load_from_json(orig_dump[1])>>

\* C5: the bundles, concatenated in order, are the sorted stream: every
\* record is in exactly one bundle, none is lost, duplicated or reordered.
C5_BundlesPartitionTheStream ==
    crpc = "bundled" => Concat(bundles) = sorted_psl

C5_Witness ==
    /\ crpc = "bundled"
    /\ Len(sorted_psl) >= 3
    /\ Len(bundles) >= 2
    /\ \E i \in 1..Len(bundles) : Len(bundles[i]) >= 2

\* C6: every bundle is within the bound, except a bundle of one record that
\* is larger than the bound by itself.
C6_BundlesWithinBound ==
    crpc = "bundled" =>
        \A i \in 1..Len(bundles) :
            \/ SumSizes(bundles[i]) <= max_bases
            \/ Len(bundles[i]) = 1 /\ bundles[i][1][2] > max_bases

C6_Witness ==
    /\ crpc = "bundled"
    /\ \E i \in 1..Len(bundles) : SumSizes(bundles[i]) > max_bases
    /\ \E i \in 1..Len(bundles) :
          Len(bundles[i]) >= 2 /\ SumSizes(bundles[i]) = max_bases

\* C7: after a non-zero exit of the sort subprocess the chain_run step has
\* failed and nothing was bundled, written to a joblist or submitted.
C7_SortFailureAbortsChainRun ==
    (sort_rc # <<>> /\ sort_rc[1] # 0) =>
        /\ failed = "chain_run"
        /\ bundles = <<>>
        /\ joblist = <<>>
        /\ ~submitted

\* C8: when do_chain_run has ended, by returning or by raising, after it
\* handed a joblist to the runner adapter, the cleanup was performed.
C8_CleanupOnEveryPath ==
    (submitted /\ crpc \in {"done", "raised"}) => cleaned_up

\* C9: once chain_merge has started, no unit of the chain_run fan-out is
\* still running.
C9_MergeAfterEveryUnit ==
    "chain_merge" \in Range(started) =>
        \A i \in 1..Len(units) : units[i] # "running"

C9_Witness ==
    /\ "chain_merge" \in Range(started)
    /\ submitted
    /\ Len(units) >= 2

\* C10: a failed step is the last step the run started and the run is
\* aborted; from then on no step is started or completed; and once execute
\* has ended with a failed unit, chain_run is the failed step.
C10_FailureHaltsTheRun ==
    /\ [](failed # None =>
            /\ pc = "aborted"
            /\ started # <<>>
            /\ started[Len(started)] = failed
            /\ failed \notin Range(completed))
    /\ []((crpc # "submitted" /\ \E i \in 1..Len(units) : units[i] = "failed")
            => failed = "chain_run")
    /\ [][failed # None =>
            /\ started' = started
            /\ completed' = completed
            /\ failed' = failed
            /\ pc' = pc]_vars

C10_Witness ==
    /\ failed = "chain_run"
    /\ \E i \in 1..Len(units) : units[i] = "failed"
    /\ \E i \in 1..Len(units) : units[i] = "ok"
    /\ pc = "aborted"


\* C15: once the sort phase of the chain-run step has ended, on whichever
\* outcome (the sort returned zero, returned non-zero, or could not be
\* launched), the temporary sort directory no longer exists.
C15_SortTempGoneAfterSort ==
    crpc # "idle" => ~sort_temp


\* The chain-run step has bundled the sorted stream and not raised since.
Bundled == crpc \in {"bundled", "joblist", "submitted", "returned", "done"}

\* The number of bundles of the given cumulative size, full (at the bound)
\* or partial (below it).
FullBundles == Cardinality({i \in 1..Len(bundles) : SumSizes(bundles[i]) = max_bases})
PartialBundles == Cardinality({i \in 1..Len(bundles) : SumSizes(bundles[i]) < max_bases})

\* Three bundles, two full and one partial, three submitted units, and
\* chain_merge started only once all three have reported success.
ThreeBundlesThreeJobs ==
    /\ Len(bundles) = 3
    /\ FullBundles = 2
    /\ PartialBundles = 1
    /\ crpc \in {"joblist", "submitted", "returned", "done"} => Len(joblist[1]) = 3
    /\ crpc \in {"submitted", "returned", "done"} => Len(units) = 3
    /\ "chain_merge" \in Range(started) =>
          Len(units) = 3 /\ \A i \in 1..3 : units[i] = "ok"

\* The sorted stream is three records of 50, 50 and 20 million bases, in
\* any order.
ThreeChunks_50_50_20 ==
    /\ Len(sorted_psl) = 3
    /\ Cardinality({i \in 1..3 : sorted_psl[i][2] = 5}) = 2
    /\ Cardinality({i \in 1..3 : sorted_psl[i][2] = 2}) = 1

\* C17 (as stated): whenever the sorted stream totals 120,000,000 bases under
\* the 50,000,000 bound, bundling gives exactly 3 bundles (2 full, 1
\* partial), 3 jobs are submitted, and chain_merge starts only after all 3
\* succeeded.
C17_Total120Gives3Bundles ==
    (Bundled \/ "chain_merge" \in Range(started)) /\ SumSizes(sorted_psl) = 12
        => ThreeBundlesThreeJobs

\* C17 (amended): the same, for a stream of three records of 50, 50 and 20
\* million bases.
C17_ThreeChunksGive3Bundles ==
    (Bundled \/ "chain_merge" \in Range(started)) /\ ThreeChunks_50_50_20
        => ThreeBundlesThreeJobs

C17_Witness ==
    /\ ThreeChunks_50_50_20
    /\ Len(bundles) = 3
    /\ \A i \in 1..Len(units) : units[i] = "ok"
    /\ "chain_merge" \in Range(started)


\* The number of bins of strict first-fit-in-order packing, counted with a
\* running load only: a record goes into the open bin when it fits, and
\* otherwise opens the next one; no bin is ever reopened.
RECURSIVE FirstFitInOrderCount(_, _, _, _)
FirstFitInOrderCount(s, maxb, load, n) ==
    IF s = <<>> THEN n
    ELSE IF n = 0 \/ load + Head(s)[2] > maxb
         THEN FirstFitInOrderCount(Tail(s), maxb, Head(s)[2], n + 1)
         ELSE FirstFitInOrderCount(Tail(s), maxb, load + Head(s)[2], n)

\* C18: bundling is greedy and single-pass. A bundle closes exactly when
\* the next record would take it over the bound (it is never closed earlier,
\* and no record was added that took a bundle of several records over the
\* bound), and that record opens the next bundle; hence two adjacent bundles
\* together exceed the bound, and the number of bundles is the number of
\* bins of strict first-fit-in-order packing.
C18_GreedySinglePass ==
    crpc = "bundled" =>
        /\ \A i \in 1..Len(bundles) : bundles[i] # <<>>
        /\ \A i \in 1..(Len(bundles) - 1) :
              /\ SumSizes(bundles[i]) + bundles[i + 1][1][2] > max_bases
              /\ SumSizes(bundles[i]) + SumSizes(bundles[i + 1]) > max_bases
        /\ \A i \in 1..Len(bundles) : \A k \in 2..Len(bundles[i]) :
              SumSizes(SubSeq(bundles[i], 1, k)) <= max_bases
        /\ Len(bundles) = FirstFitInOrderCount(sorted_psl, max_bases, 0, 0)

C18_Witness ==
    /\ crpc = "bundled"
    /\ Len(bundles) >= 2
    /\ Len(bundles[1]) >= 2
    /\ SumSizes(bundles[1]) < max_bases


\* The files of the split directory: one per bundle.
BundleFiles == {<<"split_psl", i>> : i \in 1..Len(bundles)}

\* C19: when the joblist is handed to the runner adapter, the joblist file
\* has been written and holds exactly one command per bundle file: every
\* bundle is the input of exactly one command, no command reads anything
\* but a bundle, and distinct commands write distinct output chain files.
C19_OneCommandPerBundle ==
    submitted =>
        /\ joblist # <<>>
        /\ Len(joblist[1]) = Len(bundles)
        /\ \A b \in BundleFiles :
              Cardinality({c \in 1..Len(joblist[1]) : joblist[1][c].in_path = b}) = 1
        /\ \A c \in 1..Len(joblist[1]) : joblist[1][c].in_path \in BundleFiles
        /\ \A c, d \in 1..Len(joblist[1]) :
              c # d => joblist[1][c].out_path # joblist[1][d].out_path

C19_Witness ==
    /\ submitted
    /\ crpc = "submitted"
    /\ Len(bundles) >= 2
    /\ Len(units) = Len(bundles)


\* C20: once the resolver of modules/step_executables.py has attempted every
\* required tool, the value mapped to a tool is the failure marker exactly
\* when the tool is in the not-found set, and is otherwise the path at which
\* the tool was found, for scripts, binaries and the net builder alike.
C20_MarkerIffNotFound ==
    pc \in {"aborted", "resolved"} =>
        \A i \in 1..Len(ModuleTools) :
            LET v == step_executables.fields[i][2]
                missing == ModuleTools[i].name \in Range(step_executables.not_found)
            IN  /\ (v = NoneValue) <=> missing
                /\ ~missing => v[1] = "path" /\ <<v[2], v[3]>> \in fs


\* The chain cleaner was run and has exited with a non-zero code.
CleanerExitedNonZero == cc.returncode # <<>> /\ cc.returncode[1] # 0

\* The step was left by the error raised for the cleaner's exit: its message
\* holds the captured stderr, and the compression was not run.
RaisedForCleanerExit ==
    /\ cc.pc = "raised"
    /\ cc.error[1].type = "PipelineSubprocessError"
    /\ cc.stderr \in Range(cc.error[1].message)
    /\ ~cc.gzip_invoked

ToleratedLogged == "Chain cleaner returned non-zero error code" \in Range(cc.log)

C12_InputFollowsFillChain ==
    cc.input_chain # <<>> =>
        IF cc.params.fill_chain[2] # 0
        THEN cc.input_chain[1] = filled_chain
        ELSE cc.input_chain[1] = merged_chain

\* C13: the step never cleans in place on the only copy. The cleaner is run
\* only after the move; its command reads the before-cleaning path and
\* writes another path; and from the move on, failure states included, the
\* before-cleaning path holds the chain the selected input held.
C13_PreCleanChainKept ==
    /\ cc.returncode # <<>> => cc.cmd # <<>>
    /\ cc.cmd # <<>> =>
          /\ cc.cmd[1].in_chain = before_cleaning_chain
          /\ cc.cmd[1].out_chain # before_cleaning_chain
          /\ cc.files[before_cleaning_chain] = ChainData(cc.input_chain[1])

C13_Witness ==
    /\ cc.pc = "raised"
    /\ cc.returncode = <<1>>
    /\ isfile(cc.files, cc.cmd[1].out_chain)
    /\ cc.files[before_cleaning_chain] = ChainData(cc.input_chain[1])

\* C14: when the selected input does not exist, the step is left at once by
\* an error that names the expected path: no file has been moved or
\* created, neither the cleaner nor the compressor has been run, and
\* nothing happens afterwards.
C14_AbsentInputFailsFirst ==
    [][/\ cc.pc = "start" /\ cc'.input_chain # <<>>
          /\ ~isfile(cc.files, cc'.input_chain[1]) =>
             /\ cc'.pc = "raised"
             /\ cc'.error[1].type = "RuntimeError"
             /\ cc'.input_chain[1] \in Range(cc'.error[1].message)
             /\ cc'.files = cc.files
             /\ cc'.cmd = <<>>
             /\ cc'.returncode = <<>>
             /\ ~cc'.gzip_invoked
       /\ cc.pc = "raised" => cc' = cc]_vars

C14_Witness ==
    /\ cc.pc = "raised"
    /\ cc.error[1].type = "RuntimeError"
    /\ ~isfile(cc.files, cc.input_chain[1])
    /\ cc.cmd = <<>>


C21_FailedAttemptKeepsInput ==
    /\ cc.pc = "raised"
    /\ cc.cmd # <<>>
    /\ cc.returncode # <<>>
    => isfile(cc.files, select_input_chain(cc.params))

\* C22: the clean step leaves the search path of the process as it was. No
\* step of do_chains_clean, on the success path or on an error path, changes
\* os.environ["PATH"]; the search path with the chain-clean environment
\* directory in front is the one handed to the chain cleaner and differs
\* from that of the process; gzip is run with the search path the process
\* had before the step.
C22_ProcessSearchPathUnchanged ==
    [][/\ cc'.environ_PATH = cc.environ_PATH
       /\ cc'.env_PATH # <<>> =>
             /\ cc'.env_PATH[1] = <<chain_clean_micro_env>> \o cc.environ_PATH
             /\ cc'.env_PATH[1] # cc'.environ_PATH
       /\ cc'.gzip_PATH # <<>> => cc'.gzip_PATH[1] = cc.environ_PATH]_vars

C22_Witness ==
    /\ cc.pc = "done"
    /\ cc.env_PATH = <<<<chain_clean_micro_env>> \o cc.environ_PATH>>
    /\ cc.gzip_PATH = <<cc.environ_PATH>>
    /\ chain_clean_micro_env \notin Range(cc.environ_PATH)

====
